---- MODULE Spec2Model ----
(***************************************************************************)
(* Keyframe extraction of video_summarizer                                 *)
(* (src/src/video_summarizer/keyframes/extractor.py).                      *)
(*                                                                         *)
(* One run of KeyframeExtractor._east_text_frame_extraction is modelled as *)
(* a state machine: the locals of the function are the variables, one      *)
(* action per loop iteration / exit path.  The video, the EAST detector,   *)
(* the perceptual hash and cv2.imwrite are the environment: what they      *)
(* return is drawn nondeterministically when the code calls them and is    *)
(* recorded in `frames`, `forwarded`, `grabbed`, `images`.                 *)
(***************************************************************************)
EXTENDS Integers, Sequences, FiniteSets, TLC

\* ---------------------------------------------------------------- bounds
MaxFrames == 4
MaxStride == 2
\* frames of the scenario video: the last sampled index is 960
ScenarioFrames == 961

\* ------------------------------------------------------ program constants
hash_thresh == 15
DensityThreshold == 50
HashBits == 64
FilenameWidth == 5
ScenarioStride == 240

None == <<>>

\* ------------------------------------------------------------ input sets
\* A perceptual hash is a vector of HashBits bits, kept as the 1-tuple of the
\* set of positions of its 1 bits; RangeHash(a, b) has the bits a..b set.
RangeHash(a, b) == << { i \in 1..HashBits : a <= i /\ i <= b } >>

Hashes == { RangeHash(1, 0), RangeHash(1, 15), RangeHash(1, 16),
            RangeHash(1, 30), RangeHash(16, 30) }

RegionCounts == { DensityThreshold, DensityThreshold + 1 }

FrameRates == { 24, 30 }

Strides == 1..MaxStride

VARIABLES
    pc,              \* "new", "constructed", "start", "loop", "flush",
                     \* "done", "raised"
    opened,          \* the cv2.VideoCapture handle is held (not released)
    nframes,         \* number of frames the stream really holds
    frame_skip,      \* stride (parameter)
    fps,             \* video.get(CAP_PROP_FPS)
    frame_id,        \* index of the next frame of the stream
    saved_metadata,  \* list of records
    prev_hash,       \* fingerprint of the active run, or None
    last_similar,    \* <<frame, frame_id>> of the active run, or None
    frames,          \* sampled frames: index -> [regions, phash]
    forwarded,       \* indices passed to net.forward, in call order
    grabbed,         \* indices advanced with video.grab()
    images,          \* files on disk: set of [name, content]
    endCause,        \* "none", "eof" (stream exhausted), "error" (read failed)
    model_exists,    \* the EAST model file is on disk
    video_exists,    \* the video path given to extract() exists
    images_dir,      \* the images sub-directory has been created
    error,           \* the exception that left the extractor, or None
    keyframes,       \* the list extract() returns
    fn_pc,           \* call of a helper on its own: "idle", "call", "ret"
    arg,             \* its arguments
    res              \* its result

\* the state of the environment and of extract() around the sampling loop
extractVars == << model_exists, video_exists, images_dir, error, keyframes >>

\* the state of a helper called on its own
fnVars == << fn_pc, arg, res >>

\* the state of the sampling loop
loopVars == << pc, opened, nframes, frame_skip, fps, frame_id, saved_metadata,
               prev_hash, last_similar, frames, forwarded, grabbed, images,
               endCause >>

vars == << pc, opened, nframes, frame_skip, fps, frame_id, saved_metadata,
           prev_hash, last_similar, frames, forwarded, grabbed, images,
           endCause, model_exists, video_exists, images_dir, error, keyframes,
           fn_pc, arg, res >>

\* --------------------------------------------------------- pure helpers

\* imagehash: hash1 - hash2 is the Hamming distance of the two bit vectors.
HashDistance(a, b) == Cardinality((a[1] \ b[1]) \cup (b[1] \ a[1]))

\* mutant: every sampled frame is taken as a candidate
IsCandidate_Always(regions) == regions >= 0

\* mutant: the density test admits a frame with exactly 50 regions
IsCandidate_AtLeast(regions) == regions >= DensityThreshold

\* mutant: a frame needs more than 51 regions to be a candidate
IsCandidate_AboveNext(regions) == regions > DensityThreshold + 1

\* extractor.py:168   len(rects) > 50
IsCandidate(regions) == regions > DensityThreshold

\* mutant: the similarity test excludes the threshold itself
IsSimilar_Strict(frame_hash, ph) == HashDistance(frame_hash, ph) < hash_thresh

\* extractor.py:176   abs(frame_hash - prev_hash) <= hash_thresh
IsSimilar(frame_hash, ph) == HashDistance(frame_hash, ph) <= hash_thresh

\* decimal digits of n >= 0, most significant first
RECURSIVE Digits(_)
Digits(n) == IF n < 10 THEN << n >> ELSE Append(Digits(n \div 10), n % 10)

RECURSIVE ZeroPad(_, _)
ZeroPad(ds, w) == IF Len(ds) >= w THEN ds ELSE ZeroPad(<< 0 >> \o ds, w)

\* extractor.py:120   f"frame_{fid:05d}.jpg"
FrameFilename(fid) == << "frame_" >> \o ZeroPad(Digits(fid), FilenameWidth) \o << ".jpg" >>

\* extractor.py:123   fid / fps  (kept as the exact quotient num/den)
Timestamp(fid, rate) == [num |-> fid, den |-> rate]

TsLeq(a, b) == a.num * b.den <= b.num * a.den

\* mutant: the record carries the index after the saved one
MetadataRecord_NextIndex(fid, rate) ==
    [ frame_id     |-> FrameFilename(fid + 1),
      frame_number |-> fid + 1,
      timestamp    |-> Timestamp(fid + 1, rate),
      source_video |-> "input_mp4",
      frame_path   |-> << "images_dir" >> \o FrameFilename(fid + 1) ]

\* extractor.py:124-130
MetadataRecord(fid, rate) ==
    [ frame_id     |-> FrameFilename(fid),
      frame_number |-> fid,
      timestamp    |-> Timestamp(fid, rate),
      source_video |-> "input_mp4",
      frame_path   |-> << "images_dir" >> \o FrameFilename(fid) ]

\* mutant: the record is inserted at the head of the list
AppendRecord_Front(meta, rec) == << rec >> \o meta

\* extractor.py:124   saved_metadata.append({...})
AppendRecord(meta, rec) == Append(meta, rec)

\* extractor.py:122   cv2.imwrite(path, frame); returns False (no exception)
\* when the file cannot be written, and the result is not looked at.
ImWrite(disk, name, frame, ok) ==
    IF ok THEN { f \in disk : f.name # name } \cup { [name |-> name, content |-> frame] }
          ELSE disk

\* mutant: the timestamp is computed from the index after the saved one
save_frame_and_metadata_NextTime(meta, disk, rate, ls, ok) ==
    [ meta |-> AppendRecord(meta, [ MetadataRecord(ls[2], rate) EXCEPT
                                      !.timestamp = Timestamp(ls[2] + 1, rate) ]),
      disk |-> ImWrite(disk, FrameFilename(ls[2]), ls[1], ok) ]

\* extractor.py:118-130   save_frame_and_metadata(frame, fid)
save_frame_and_metadata(meta, disk, rate, ls, ok) ==
    [ meta |-> AppendRecord(meta, MetadataRecord(ls[2], rate)),
      disk |-> ImWrite(disk, FrameFilename(ls[2]), ls[1], ok) ]

\* mutant: a similar frame does not replace the run's representative
MergeIntoRun_KeepFirst(ls, frame, fid) == ls

\* extractor.py:178   last_similar = (frame, frame_id) on a similar frame
MergeIntoRun(ls, frame, fid) == << frame, fid >>

\* mutant: closing a run emits the new frame instead of the representative
SelectorStep_EmitNew(ph, ls, frame_hash, frame, fid) ==
    IF ph = None
    THEN [ prev_hash |-> frame_hash, last_similar |-> << frame, fid >>, emit |-> None ]
    ELSE IF IsSimilar(frame_hash, ph)
    THEN [ prev_hash |-> ph, last_similar |-> MergeIntoRun(ls, frame, fid), emit |-> None ]
    ELSE [ prev_hash |-> frame_hash, last_similar |-> << frame, fid >>, emit |-> << frame, fid >> ]

\* mutant: a closed run is dropped instead of being saved
SelectorStep_DropClosed(ph, ls, frame_hash, frame, fid) ==
    IF ph = None
    THEN [ prev_hash |-> frame_hash, last_similar |-> << frame, fid >>, emit |-> None ]
    ELSE IF IsSimilar(frame_hash, ph)
    THEN [ prev_hash |-> ph, last_similar |-> MergeIntoRun(ls, frame, fid), emit |-> None ]
    ELSE [ prev_hash |-> frame_hash, last_similar |-> << frame, fid >>, emit |-> None ]

\* mutant: the first candidate is saved at once
SelectorStep_EmitFirst(ph, ls, frame_hash, frame, fid) ==
    IF ph = None
    THEN [ prev_hash |-> frame_hash, last_similar |-> << frame, fid >>,
           emit |-> << frame, fid >> ]
    ELSE IF IsSimilar(frame_hash, ph)
    THEN [ prev_hash |-> ph, last_similar |-> MergeIntoRun(ls, frame, fid), emit |-> None ]
    ELSE [ prev_hash |-> frame_hash, last_similar |-> << frame, fid >>, emit |-> ls ]

\* mutant: the first candidate is kept but its hash is not
SelectorStep_NoFingerprint(ph, ls, frame_hash, frame, fid) ==
    IF ph = None
    THEN [ prev_hash |-> None, last_similar |-> << frame, fid >>, emit |-> None ]
    ELSE IF IsSimilar(frame_hash, ph)
    THEN [ prev_hash |-> ph, last_similar |-> MergeIntoRun(ls, frame, fid), emit |-> None ]
    ELSE [ prev_hash |-> frame_hash, last_similar |-> << frame, fid >>, emit |-> ls ]

\* mutant: a similar frame also becomes the fingerprint of the run
SelectorStep_TrackLatest(ph, ls, frame_hash, frame, fid) ==
    IF ph = None
    THEN [ prev_hash |-> frame_hash, last_similar |-> << frame, fid >>, emit |-> None ]
    ELSE IF IsSimilar(frame_hash, ph)
    THEN [ prev_hash |-> frame_hash, last_similar |-> MergeIntoRun(ls, frame, fid),
           emit |-> None ]
    ELSE [ prev_hash |-> frame_hash, last_similar |-> << frame, fid >>, emit |-> ls ]

\* mutant: a closed run is saved but stays the active run
SelectorStep_KeepClosed(ph, ls, frame_hash, frame, fid) ==
    IF ph = None
    THEN [ prev_hash |-> frame_hash, last_similar |-> << frame, fid >>, emit |-> None ]
    ELSE IF IsSimilar(frame_hash, ph)
    THEN [ prev_hash |-> ph, last_similar |-> MergeIntoRun(ls, frame, fid), emit |-> None ]
    ELSE [ prev_hash |-> ph, last_similar |-> ls, emit |-> ls ]

\* extractor.py:172-184   the selection branch for a candidate frame.
\* emit is the pair to save (or None).
SelectorStep(ph, ls, frame_hash, frame, fid) ==
    IF ph = None
    THEN [ prev_hash |-> frame_hash, last_similar |-> << frame, fid >>, emit |-> None ]
    ELSE IF IsSimilar(frame_hash, ph)
    THEN [ prev_hash |-> ph, last_similar |-> MergeIntoRun(ls, frame, fid), emit |-> None ]
    ELSE [ prev_hash |-> frame_hash, last_similar |-> << frame, fid >>, emit |-> ls ]

\* mutant: the final save is executed twice
FlushRun_Twice(meta, disk, rate, ls, ok) ==
    IF ls # None
    THEN LET w == save_frame_and_metadata(meta, disk, rate, ls, ok)
         IN save_frame_and_metadata(w.meta, w.disk, rate, ls, ok)
    ELSE [ meta |-> meta, disk |-> disk ]

\* mutant: the active run is dropped at the end of the loop
FlushRun_Never(meta, disk, rate, ls, ok) == [ meta |-> meta, disk |-> disk ]

\* extractor.py:190-191   if last_similar: save_frame_and_metadata(*last_similar)
FlushRun(meta, disk, rate, ls, ok) ==
    IF ls # None THEN save_frame_and_metadata(meta, disk, rate, ls, ok)
                 ELSE [ meta |-> meta, disk |-> disk ]

\* mutant: the stride test is shifted by one frame
IsSkipped_Shifted(fid, stride) == (fid + 1) % stride # 0

\* extractor.py:135   frame_id % frame_skip != 0
IsSkipped(fid, stride) == fid % stride # 0

\* mutant: one read too many succeeds at the end of the stream
HasFrame_OneMore(fid, n) == fid <= n

\* extractor.py:136, 141-142   grab()/read() deliver frame fid of a stream of
\* n frames
HasFrame(fid, n) == fid < n

\* extractor.py:44   FileNotFoundError(f"EAST model not found at: ...")
ModelNotFound == << "FileNotFoundError", "EAST model not found" >>

\* extractor.py:57   FileNotFoundError(f"Video file not found: ...")
VideoNotFound == << "FileNotFoundError", "Video file not found" >>

\* extractor.py:80-81   except Exception as e: raise Exception(f"Keyframe
\* extraction failed: {str(e)}")
ExtractionFailed(msg) == << "Exception", "Keyframe extraction failed", msg >>

\* extractor.py:104   the message of the exception of a failed open
CouldNotOpen == "Could not open video file"

\* the message of an exception raised by a call of the loop body
RaisedInLoop == "raised in the sampling loop"

\* a KeyboardInterrupt delivered while the code of block where runs; it is
\* not an Exception, so extractor.py:80 does not catch it
Interrupted(where) == << "KeyboardInterrupt", where >>

\* extractor.py:275   confidence_score=0.8
ConfidenceScore == [num |-> 8, den |-> 10]

\* mutant: the keyframe takes the source video of the metadata entry
KeyframeOf_MetaSource(metadata, source_video) ==
    [ timestamp        |-> metadata.timestamp,
      image_path       |-> [path |-> metadata.frame_path],
      description      |-> << "Text-rich frame detected at ", metadata.timestamp, "s" >>,
      confidence_score |-> ConfidenceScore,
      source_video     |-> metadata.source_video ]

\* extractor.py:271-277   Keyframe(timestamp=..., image_path=Path(...), ...)
\* (the description keeps the timestamp it formats)
KeyframeOf(metadata, source_video) ==
    [ timestamp        |-> metadata.timestamp,
      image_path       |-> [path |-> metadata.frame_path],
      description      |-> << "Text-rich frame detected at ", metadata.timestamp, "s" >>,
      confidence_score |-> ConfidenceScore,
      source_video     |-> source_video ]

\* extractor.py:257-280   _convert_to_keyframes
RECURSIVE convert_to_keyframes(_, _)
convert_to_keyframes(metadata_list, source_video) ==
    IF metadata_list = << >> THEN << >>
    ELSE << KeyframeOf(Head(metadata_list), source_video) >>
         \o convert_to_keyframes(Tail(metadata_list), source_video)

\* ------------------------------------------------------------- initial

InitLocals ==
    /\ pc = "new"
    /\ images_dir = FALSE
    /\ error = None
    /\ keyframes = << >>
    /\ opened = FALSE
    /\ frame_id = 0
    /\ saved_metadata = << >>
    /\ prev_hash = None
    /\ last_similar = None
    /\ frames = << >>
    /\ forwarded = << >>
    /\ grabbed = {}
    /\ images = {}
    /\ endCause = "none"

\* no helper is called on its own
FnIdle ==
    /\ fn_pc = "idle"
    /\ arg = None
    /\ res = None

Init ==
    /\ InitLocals
    /\ FnIdle
    /\ model_exists \in BOOLEAN
    /\ video_exists \in BOOLEAN
    /\ nframes \in 0..MaxFrames
    /\ frame_skip \in Strides
    /\ fps \in FrameRates

\* the scenario of spec section 8: stride 240, 24 fps, frames 0..960
InitScenario ==
    /\ InitLocals
    /\ FnIdle
    /\ model_exists = TRUE
    /\ video_exists = TRUE
    /\ nframes = ScenarioFrames
    /\ frame_skip = ScenarioStride
    /\ fps = 24

\* -------------------------------------------------------------- actions

\* extractor.py:30-44   __init__ with the model file present
Construct ==
    /\ pc = "new"
    /\ model_exists
    /\ pc' = "constructed"
    /\ UNCHANGED << opened, nframes, frame_skip, fps, frame_id, saved_metadata,
                    prev_hash, last_similar, frames, forwarded, grabbed,
                    images, endCause >>
    /\ UNCHANGED << extractVars, fnVars >>

\* mutant: the model file is not looked at in __init__
ConstructFails_Lazy ==
    /\ pc = "new"
    /\ ~ model_exists
    /\ pc' = "constructed"
    /\ UNCHANGED << opened, nframes, frame_skip, fps, frame_id, saved_metadata,
                    prev_hash, last_similar, frames, forwarded, grabbed,
                    images, endCause >>
    /\ UNCHANGED << extractVars, fnVars >>

\* extractor.py:43-44   __init__ with the model file missing
ConstructFails ==
    /\ pc = "new"
    /\ ~ model_exists
    /\ pc' = "raised"
    /\ error' = ModelNotFound
    /\ UNCHANGED << opened, nframes, frame_skip, fps, frame_id, saved_metadata,
                    prev_hash, last_similar, frames, forwarded, grabbed,
                    images, endCause >>
    /\ UNCHANGED << model_exists, video_exists, images_dir, keyframes, fnVars >>

\* extractor.py:56-61   extract(): the video exists, the images directory
\* is created
ExtractBegin ==
    /\ pc = "constructed"
    /\ video_exists
    /\ images_dir' = TRUE
    /\ pc' = "start"
    /\ UNCHANGED << opened, nframes, frame_skip, fps, frame_id, saved_metadata,
                    prev_hash, last_similar, frames, forwarded, grabbed,
                    images, endCause >>
    /\ UNCHANGED << model_exists, video_exists, error, keyframes, fnVars >>

\* mutant: the existence test sits inside the try block, after the
\* directory is created
ExtractMissingVideo_InsideTry ==
    /\ pc = "constructed"
    /\ ~ video_exists
    /\ pc' = "raised"
    /\ images_dir' = TRUE
    /\ error' = ExtractionFailed(VideoNotFound[2])
    /\ UNCHANGED << opened, nframes, frame_skip, fps, frame_id, saved_metadata,
                    prev_hash, last_similar, frames, forwarded, grabbed,
                    images, endCause >>
    /\ UNCHANGED << model_exists, video_exists, keyframes, fnVars >>

\* extractor.py:56-57   extract(): the video path does not exist
ExtractMissingVideo ==
    /\ pc = "constructed"
    /\ ~ video_exists
    /\ pc' = "raised"
    /\ error' = VideoNotFound
    /\ UNCHANGED << opened, nframes, frame_skip, fps, frame_id, saved_metadata,
                    prev_hash, last_similar, frames, forwarded, grabbed,
                    images, endCause >>
    /\ UNCHANGED << model_exists, video_exists, images_dir, keyframes, fnVars >>

\* extractor.py:100-104   the network is read and the video opens
OpenVideo ==
    /\ pc = "start"
    /\ pc' = "setup"
    /\ opened' = TRUE
    /\ UNCHANGED << nframes, frame_skip, fps, frame_id, saved_metadata,
                    prev_hash, last_similar, frames, forwarded, grabbed,
                    images, endCause >>
    /\ UNCHANGED << extractVars, fnVars >>

\* mutant: the open test comes after the first frame was read and forwarded
OpenFails_AfterFirstRead ==
    /\ pc = "start"
    /\ pc' = "raised"
    /\ error' = ExtractionFailed(CouldNotOpen)
    /\ forwarded' = Append(forwarded, frame_id)
    /\ UNCHANGED << opened, nframes, frame_skip, fps, frame_id, saved_metadata,
                    prev_hash, last_similar, frames, grabbed,
                    images, endCause >>
    /\ UNCHANGED << model_exists, video_exists, images_dir, keyframes, fnVars >>

\* extractor.py:103-104   raise Exception("Could not open video file")
\* (before the try: video.release() is not called on this path); extract()
\* rewraps the exception (extractor.py:80-81)
OpenFails ==
    /\ pc = "start"
    /\ pc' = "raised"
    /\ error' = ExtractionFailed(CouldNotOpen)
    /\ UNCHANGED << opened, nframes, frame_skip, fps, frame_id, saved_metadata,
                    prev_hash, last_similar, frames, forwarded, grabbed,
                    images, endCause >>
    /\ UNCHANGED << model_exists, video_exists, images_dir, keyframes, fnVars >>

\* extractor.py:106-132   fps and the frame count are read, the progress bar
\* and the locals are created, the try block is entered
SetupLocals ==
    /\ pc = "setup"
    /\ pc' = "loop"
    /\ UNCHANGED << opened, nframes, frame_skip, fps, frame_id, saved_metadata,
                    prev_hash, last_similar, frames, forwarded, grabbed,
                    images, endCause >>
    /\ UNCHANGED << extractVars, fnVars >>

\* extractor.py:106-131   the run is interrupted (KeyboardInterrupt) between
\* the open and the try: no finally block is active, video.release() is not
\* called; extract() catches Exception only (extractor.py:80), so the
\* interrupt propagates as it is
SetupInterrupted ==
    /\ pc = "setup"
    /\ pc' = "raised"
    /\ error' = Interrupted("setup")
    /\ UNCHANGED << opened, nframes, frame_skip, fps, frame_id, saved_metadata,
                    prev_hash, last_similar, frames, forwarded, grabbed,
                    images, endCause >>
    /\ UNCHANGED << model_exists, video_exists, images_dir, keyframes, fnVars >>

\* mutant: the skip branch continues without counting the frame
SkipFrame_NoIncrement ==
    /\ pc = "loop"
    /\ IsSkipped(frame_id, frame_skip)
    /\ HasFrame(frame_id, nframes)
    /\ grabbed' = grabbed \cup { frame_id }
    /\ UNCHANGED << pc, opened, nframes, frame_skip, fps, frame_id, saved_metadata,
                    prev_hash, last_similar, frames, forwarded, images,
                    endCause >>
    /\ UNCHANGED << extractVars, fnVars >>

\* extractor.py:135-139   a non-sampled index: grab() succeeds
SkipFrame ==
    /\ pc = "loop"
    /\ IsSkipped(frame_id, frame_skip)
    /\ HasFrame(frame_id, nframes)
    /\ grabbed' = grabbed \cup { frame_id }
    /\ frame_id' = frame_id + 1
    /\ UNCHANGED << pc, opened, nframes, frame_skip, fps, saved_metadata,
                    prev_hash, last_similar, frames, forwarded, images,
                    endCause >>
    /\ UNCHANGED << extractVars, fnVars >>

\* extractor.py:141-187   a sampled index: read() succeeds, the frame goes
\* through the detector and, if dense, through the selector.  counts is the
\* set of region counts the detector may return.
SampleFrameOf(counts) ==
    /\ pc = "loop"
    /\ ~ IsSkipped(frame_id, frame_skip)
    /\ HasFrame(frame_id, nframes)
    /\ \E regions \in counts, h \in Hashes, ok \in BOOLEAN :
         /\ forwarded' = Append(forwarded, frame_id)
         /\ IF IsCandidate(regions)
            THEN LET s == SelectorStep(prev_hash, last_similar, h, frame_id, frame_id)
                     w == IF s.emit # None
                          THEN save_frame_and_metadata(saved_metadata, images, fps, s.emit, ok)
                          ELSE [ meta |-> saved_metadata, disk |-> images ]
                 IN /\ frames' = (frame_id :> [regions |-> regions, phash |-> h]) @@ frames
                    /\ prev_hash' = s.prev_hash
                    /\ last_similar' = s.last_similar
                    /\ saved_metadata' = w.meta
                    /\ images' = w.disk
                    \* imwrite is called only when a run is closed
                    /\ (s.emit = None => ok)
            ELSE /\ frames' = (frame_id :> [regions |-> regions, phash |-> None]) @@ frames
                 /\ h = RangeHash(1, 0)
                 /\ ok
                 /\ UNCHANGED << prev_hash, last_similar, saved_metadata, images >>
    /\ frame_id' = frame_id + 1
    /\ UNCHANGED << pc, opened, nframes, frame_skip, fps, grabbed, endCause >>
    /\ UNCHANGED << extractVars, fnVars >>

SampleFrame == SampleFrameOf(RegionCounts)

\* the same step on a video whose sampled frames are all dense
SampleDenseFrame == SampleFrameOf({ DensityThreshold + 1 })

\* extractor.py:136-137, 141-143   grab()/read() returns False because the
\* stream is exhausted: break
StreamEnd ==
    /\ pc = "loop"
    /\ ~ HasFrame(frame_id, nframes)
    /\ pc' = "flush"
    /\ endCause' = "eof"
    /\ UNCHANGED << opened, nframes, frame_skip, fps, frame_id, saved_metadata,
                    prev_hash, last_similar, frames, forwarded, grabbed, images >>
    /\ UNCHANGED << extractVars, fnVars >>

\* extractor.py:136-137, 141-143   grab()/read() returns False although
\* frames remain (read failure mid-stream): break
ReadFails ==
    /\ pc = "loop"
    /\ HasFrame(frame_id, nframes)
    /\ pc' = "flush"
    /\ endCause' = "error"
    /\ UNCHANGED << opened, nframes, frame_skip, fps, frame_id, saved_metadata,
                    prev_hash, last_similar, frames, forwarded, grabbed, images >>
    /\ UNCHANGED << extractVars, fnVars >>

\* extractor.py:147-170, 193-195   a call in the loop body raises (resize,
\* inference, hashing): the finally block releases the video, the exception
\* propagates, is rewrapped by extract() (extractor.py:80-81) and nothing is
\* returned
LoopRaises ==
    /\ pc = "loop"
    /\ HasFrame(frame_id, nframes)
    /\ ~ IsSkipped(frame_id, frame_skip)
    /\ pc' = "raised"
    /\ opened' = FALSE
    /\ error' = ExtractionFailed(RaisedInLoop)
    /\ UNCHANGED << nframes, frame_skip, fps, frame_id, saved_metadata,
                    prev_hash, last_similar, frames, forwarded, grabbed,
                    images, endCause >>
    /\ UNCHANGED << model_exists, video_exists, images_dir, keyframes, fnVars >>

\* extractor.py:133, 193-195   the run is interrupted (KeyboardInterrupt)
\* between two iterations of the loop: the finally block releases the
\* video, the flush after the loop (extractor.py:190-191) is skipped, the
\* interrupt propagates through extract() and nothing is returned
LoopInterrupted ==
    /\ pc = "loop"
    /\ pc' = "raised"
    /\ opened' = FALSE
    /\ error' = Interrupted("loop")
    /\ UNCHANGED << nframes, frame_skip, fps, frame_id, saved_metadata,
                    prev_hash, last_similar, frames, forwarded, grabbed,
                    images, endCause >>
    /\ UNCHANGED << model_exists, video_exists, images_dir, keyframes, fnVars >>

\* extractor.py:189-197   flush of the active run, finally, return;
\* extractor.py:73-78   extract() converts the metadata and returns
Flush ==
    /\ pc = "flush"
    /\ \E ok \in BOOLEAN :
         LET w == FlushRun(saved_metadata, images, fps, last_similar, ok)
         IN /\ (last_similar = None => ok)
            /\ saved_metadata' = w.meta
            /\ images' = w.disk
            /\ keyframes' = convert_to_keyframes(w.meta, "input_mp4")
    /\ pc' = "done"
    /\ opened' = FALSE
    /\ UNCHANGED << nframes, frame_skip, fps, frame_id, prev_hash, last_similar,
                    frames, forwarded, grabbed, endCause >>
    /\ UNCHANGED << model_exists, video_exists, images_dir, error, fnVars >>

Next ==
    \/ Construct
    \/ ConstructFails
    \/ ExtractBegin
    \/ ExtractMissingVideo
    \/ OpenVideo
    \/ OpenFails
    \/ SetupLocals
    \/ SetupInterrupted
    \/ SkipFrame
    \/ SampleFrame
    \/ StreamEnd
    \/ ReadFails
    \/ LoopRaises
    \/ LoopInterrupted
    \/ Flush

Spec == Init /\ [][Next]_vars

\* termination does not depend on the frame rate: one rate is enough
InitLive ==
    /\ Init
    /\ fps = 24

\* the steps the interpreter takes by itself once the run is started: all
\* but the failures of the environment (a failed read, an exception, an
\* interrupt), which may or may not happen
ProgramStep ==
    \/ Construct
    \/ ConstructFails
    \/ ExtractBegin
    \/ ExtractMissingVideo
    \/ OpenVideo
    \/ SetupLocals
    \/ SkipFrame
    \/ SampleFrame
    \/ StreamEnd
    \/ Flush

\* the interpreter keeps executing: a program step that stays possible is
\* eventually taken
SpecLive == InitLive /\ [][Next]_vars /\ WF_vars(ProgramStep)

\* the scenario has no failure and only dense frames
NextScenario ==
    \/ Construct
    \/ ExtractBegin
    \/ OpenVideo
    \/ SetupLocals
    \/ SkipFrame
    \/ SampleDenseFrame
    \/ StreamEnd
    \/ Flush

SpecScenario == InitScenario /\ [][NextScenario]_vars

\* ----------------------------------------------------------- type check

TypeOK ==
    /\ pc \in { "new", "constructed", "start", "setup", "loop", "flush", "done",
               "raised" }
    /\ model_exists \in BOOLEAN
    /\ video_exists \in BOOLEAN
    /\ images_dir \in BOOLEAN
    /\ (error = None) <=> (pc # "raised")
    /\ Len(keyframes) <= Len(saved_metadata)
    /\ opened \in BOOLEAN
    /\ frame_id \in 0..nframes
    /\ endCause \in { "none", "eof", "error" }

\* ------------------------------------------------ helpers called alone
\* The helpers below are pure functions.  Each has a specification of its
\* own: the arguments are drawn in the initial state, one step applies the
\* function, and the extractor itself stays as constructed.

ExtractorAtRest ==
    /\ InitLocals
    /\ model_exists = TRUE
    /\ video_exists = TRUE
    /\ nframes = 0
    /\ frame_skip = 1
    /\ fps = 24

\* sequences over S of length at most n
SeqsUpTo(S, n) == UNION { [1..k -> S] : k \in 0..n }

\* ---- _decode_predictions (extractor.py:199-241)

\* bounds: the score map has GridRows x GridCols cells
GridRows == 2
GridCols == 2

\* scores and thresholds in hundredths: 0.50, 0.59, 0.60 against 0.5 (the
\* default, extractor.py:199) and 0.6 (extractor.py:69)
ScoreValues == { 50, 59, 60 }
ConfThresholds == { 50, 60 }

\* geometry of a cell: the four distances, the angle being 0 (cos 1, sin 0)
Geometries == { [d0 |-> 1, d1 |-> 2, d2 |-> 3, d3 |-> 4],
                [d0 |-> 0, d1 |-> 0, d2 |-> 0, d3 |-> 0] }

\* mutant: a score equal to the threshold is skipped too
ScoreSkipped_AtThreshold(score, confThreshold) == score <= confThreshold

\* extractor.py:224   if scoresData[x] < confThreshold: continue
ScoreSkipped(score, confThreshold) == score < confThreshold

\* extractor.py:227-238   the box of cell (x, y), for angle 0
DecodeBox(x, y, g) ==
    LET offsetX == x * 4
        offsetY == y * 4
        h == g.d0 + g.d2
        w == g.d1 + g.d3
        endX == offsetX + g.d1
        endY == offsetY + g.d2
    IN << endX - w, endY - h, endX, endY >>

\* extractor.py:215-239   the two nested loops, cell k = y * numCols + x
RECURSIVE DecodeFrom(_, _, _, _, _, _)
DecodeFrom(k, scores, g, confThreshold, numRows, numCols) ==
    IF k >= numRows * numCols
    THEN [ rects |-> << >>, confidences |-> << >> ]
    ELSE LET y == k \div numCols
             x == k % numCols
             rest == DecodeFrom(k + 1, scores, g, confThreshold, numRows, numCols)
         IN IF ScoreSkipped(scores[<< y, x >>], confThreshold)
            THEN rest
            ELSE [ rects       |-> << DecodeBox(x, y, g) >> \o rest.rects,
                   confidences |-> << scores[<< y, x >>] >> \o rest.confidences ]

\* extractor.py:199-241   _decode_predictions(scores, geometry, confThreshold)
decode_predictions(scores, g, confThreshold, numRows, numCols) ==
    DecodeFrom(0, scores, g, confThreshold, numRows, numCols)

Cells == (0..(GridRows - 1)) \X (0..(GridCols - 1))

InitDecode ==
    /\ ExtractorAtRest
    /\ fn_pc = "call"
    /\ res = None
    /\ arg \in [ scores : [Cells -> ScoreValues], geometry : Geometries,
                 confThreshold : ConfThresholds ]

DecodeCall ==
    /\ fn_pc = "call"
    /\ fn_pc' = "ret"
    /\ res' = decode_predictions(arg.scores, arg.geometry, arg.confThreshold,
                                 GridRows, GridCols)
    /\ UNCHANGED << arg, loopVars, extractVars >>

SpecDecode == InitDecode /\ [][DecodeCall]_vars

\* ---- _convert_to_keyframes (extractor.py:257-280)

\* bound: length of the metadata list
MaxMeta == 3

MetaEntries == { MetadataRecord(f, 24) : f \in { 0, 240, 480 } }

SourceVideos == { "input_mp4", "test_video.mp4" }

InitConvert ==
    /\ ExtractorAtRest
    /\ fn_pc = "call"
    /\ res = None
    /\ arg \in [ metadata_list : SeqsUpTo(MetaEntries, MaxMeta),
                 source_video : SourceVideos ]

ConvertCall ==
    /\ fn_pc = "call"
    /\ fn_pc' = "ret"
    /\ res' = convert_to_keyframes(arg.metadata_list, arg.source_video)
    /\ UNCHANGED << arg, loopVars, extractVars >>

SpecConvert == InitConvert /\ [][ConvertCall]_vars

\* ---- sanitize_filename (file_manager.py:92-118)

\* bound: length of the file name given
MaxNameLen == 3

\* file_manager.py:103   [<>:"/\\|?*]
InvalidChars == { "<", ">", ":", "\"", "/", "\\", "|", "?", "*" }

\* \s of the regular expression
WhitespaceChars == { " ", "\t", "\n", "\r", "\f" }

\* file_manager.py:106   [\s\-\[\](){}]
SeparatorChars == WhitespaceChars \cup { "-", "[", "]", "(", ")", "{", "}" }

\* the characters file names are drawn from
NameChars == { "a", "<", "*", " ", "\t", "-", "_" }

\* re.sub(r'[set]', '', s)
RemoveChars(str, set) == SelectSeq(str, LAMBDA c : c \notin set)

\* re.sub(r'[set]+', r, s): every maximal run of characters of set becomes r
RECURSIVE ReplaceRuns(_, _, _)
ReplaceRuns(str, set, r) ==
    IF str = << >> THEN << >>
    ELSE IF Head(str) \in set
         THEN IF Len(str) >= 2 /\ str[2] \in set
              THEN ReplaceRuns(Tail(str), set, r)
              ELSE << r >> \o ReplaceRuns(Tail(str), set, r)
         ELSE << Head(str) >> \o ReplaceRuns(Tail(str), set, r)

RECURSIVE StripLeft(_, _)
StripLeft(str, c) ==
    IF str # << >> /\ Head(str) = c THEN StripLeft(Tail(str), c) ELSE str

RECURSIVE StripRight(_, _)
StripRight(str, c) ==
    IF str # << >> /\ str[Len(str)] = c
    THEN StripRight(SubSeq(str, 1, Len(str) - 1), c) ELSE str

\* mutant: only the leading underscores are removed
StripChar_LeftOnly(str, c) == StripLeft(str, c)

\* file_manager.py:112   filename.strip('_')
StripChar(str, c) == StripRight(StripLeft(str, c), c)

Untitled == << "u", "n", "t", "i", "t", "l", "e", "d" >>

\* file_manager.py:92-118   sanitize_filename
sanitize_filename(filename) ==
    LET f1 == RemoveChars(filename, InvalidChars)
        f2 == ReplaceRuns(f1, SeparatorChars, "_")
        f3 == ReplaceRuns(f2, { "_" }, "_")
        f4 == StripChar(f3, "_")
    IN IF f4 = << >> THEN Untitled ELSE f4

InitSanitize ==
    /\ ExtractorAtRest
    /\ fn_pc = "call"
    /\ res = None
    /\ arg \in SeqsUpTo(NameChars, MaxNameLen)

SanitizeCall ==
    /\ fn_pc = "call"
    /\ fn_pc' = "ret"
    /\ res' = sanitize_filename(arg)
    /\ UNCHANGED << arg, loopVars, extractVars >>

SpecSanitize == InitSanitize /\ [][SanitizeCall]_vars

\* ---- segment_topics_with_llm_full, post-processing
\* ---- (topic_segmenter.py:79-92)

\* bound: number of segments the LLM returns
MaxSegments == 3

\* a time is the number twice/2, held as a Python int or a Python float
IntTime(n) == [type |-> "int", twice |-> 2 * n]
FloatTime(twice) == [type |-> "float", twice |-> twice]

\* the times the LLM may give: 0, 2, 1.5 and -0.5
TimeValues == { IntTime(0), IntTime(2), FloatTime(3), FloatTime(0 - 1) }

\* topic_segmenter.py:16-22, 80   a segment after model_dump() (topic and
\* summary are not touched by the post-processing)
LLMSegments == [ start_time : TimeValues, end_time : TimeValues ]

\* topic_segmenter.py:83-84   int(x): truncation towards zero
IntOf(t) ==
    [ type  |-> "int",
      twice |-> IF t.twice >= 0 THEN 2 * (t.twice \div 2)
                                ELSE 0 - 2 * ((0 - t.twice) \div 2) ]

\* topic_segmenter.py:81   the place of seg in a list sorted by start_time:
\* after the segments whose start_time is not greater (sorted() is stable)
RECURSIVE InsertByStart(_, _)
InsertByStart(sorted, seg) ==
    IF sorted = << >> THEN << seg >>
    ELSE IF Head(sorted).start_time.twice <= seg.start_time.twice
    THEN << Head(sorted) >> \o InsertByStart(Tail(sorted), seg)
    ELSE << seg >> \o sorted

\* topic_segmenter.py:81   sorted(segments, key=lambda t: t["start_time"])
RECURSIVE SortByStart(_)
SortByStart(segments) ==
    IF segments = << >> THEN << >>
    ELSE InsertByStart(SortByStart(SubSeq(segments, 1, Len(segments) - 1)),
                       segments[Len(segments)])

\* mutant: end_time is left as the LLM gave it
SegmentStep_EndNotConverted(segments, i) ==
    LET a == [ segments[i] EXCEPT !.start_time = IntOf(@) ]
    IN IF i > 1 THEN [ a EXCEPT !.start_time = segments[i - 1].end_time ] ELSE a

\* topic_segmenter.py:83-86   the body of the loop for the segment at
\* position i (1-based here)
SegmentStep(segments, i) ==
    LET a == [ segments[i] EXCEPT !.start_time = IntOf(@), !.end_time = IntOf(@) ]
    IN IF i > 1 THEN [ a EXCEPT !.start_time = segments[i - 1].end_time ] ELSE a

\* topic_segmenter.py:82-86   for i, seg in enumerate(segments), in place
RECURSIVE PostProcessFrom(_, _)
PostProcessFrom(segments, i) ==
    IF i > Len(segments) THEN segments
    ELSE PostProcessFrom([ segments EXCEPT ![i] = SegmentStep(segments, i) ], i + 1)

\* topic_segmenter.py:79-92   the list saved to output_path and returned
post_process_segments(segments) == PostProcessFrom(SortByStart(segments), 1)

InitSegments ==
    /\ ExtractorAtRest
    /\ fn_pc = "call"
    /\ res = None
    /\ arg \in SeqsUpTo(LLMSegments, MaxSegments)

SegmentsCall ==
    /\ fn_pc = "call"
    /\ fn_pc' = "ret"
    /\ res' = post_process_segments(arg)
    /\ UNCHANGED << arg, loopVars, extractVars >>

SpecSegments == InitSegments /\ [][SegmentsCall]_vars

\* ------------------------------------------- derived notions for the claims

Max(S) == CHOOSE x \in S : \A y \in S : y <= x
Min(S) == CHOOSE x \in S : \A y \in S : x <= y

\* the sampled frames that were candidates
Cands == { i \in DOMAIN frames : IsCandidate(frames[i].regions) }

\* extractor.py:172-184   the first frame of the run candidate c was put in:
\* c itself when it started a run, else the head of the run before it
RECURSIVE RunHead(_)
RunHead(c) ==
    LET before == { d \in Cands : d < c }
    IN IF before = {} THEN c
       ELSE LET h == RunHead(Max(before))
            IN IF IsSimilar(frames[c].phash, frames[h].phash) THEN h ELSE c

\* c is the last candidate of its run among the frames processed so far
IsRunLast(c) == \A n \in Cands : n > c => RunHead(n) > c

RunLasts == { c \in Cands : IsRunLast(c) }

FrameNumbers == [ k \in 1..Len(saved_metadata) |-> saved_metadata[k].frame_number ]

RecordSet == { saved_metadata[k].frame_number : k \in 1..Len(saved_metadata) }

Dist(i, j) == HashDistance(frames[i].phash, frames[j].phash)

\* ------------------------------------------------------------------ C1
\* C1: when a candidate is merged into the active run the run's fingerprint
\* becomes that candidate's hash, so prev_hash is always the hash of the most
\* recently merged frame (the frame held in last_similar); and a video whose
\* candidates are A, B, C with d(A,B) <= 15, d(B,C) <= 15, d(A,C) > 15 ends
\* with exactly one record, the one for C.
C1_FingerprintIsLatestMember ==
    /\ last_similar # None => prev_hash = frames[last_similar[2]].phash
    /\ ( /\ pc = "done"
         /\ Cardinality(Cands) = 3
         /\ LET a == Min(Cands)
                c == Max(Cands)
                b == CHOOSE x \in Cands : x # a /\ x # c
            IN Dist(a, b) <= hash_thresh /\ Dist(b, c) <= hash_thresh
               /\ Dist(a, c) > hash_thresh )
       => FrameNumbers = << Max(Cands) >>

\* ------------------------------------------------------------------ C2
\* C2: last_similar always holds the most recently seen candidate (and is
\* unset exactly while no candidate was seen), and every record emitted is
\* the record of the last candidate of its run, never of an earlier member.
C2_RecordIsLastOfRun ==
    /\ (last_similar = None) <=> (Cands = {})
    /\ last_similar # None => last_similar = << Max(Cands), Max(Cands) >>
    /\ \A k \in 1..Len(saved_metadata) :
          /\ saved_metadata[k].frame_number \in Cands
          /\ IsRunLast(saved_metadata[k].frame_number)

\* a returned record stands for a run of at least two candidates
C2_Witness ==
    /\ pc = "done"
    /\ \E k \in 1..Len(saved_metadata) :
          RunHead(saved_metadata[k].frame_number) < saved_metadata[k].frame_number

C4_FlushEmitsOnce ==
    /\ [](pc = "done" /\ Cands = {} => saved_metadata = << >>)
    /\ [][ /\ pc = "flush" =>
                /\ pc' = "done"
                /\ saved_metadata' =
                     IF last_similar # None
                     THEN Append(saved_metadata, MetadataRecord(last_similar[2], fps))
                     ELSE saved_metadata
           /\ pc = "done" => saved_metadata' = saved_metadata ]_vars

\* the stream was exhausted with a run active and the flush added its record
C4_Witness ==
    /\ pc = "done"
    /\ endCause = "eof"
    /\ last_similar # None
    /\ Len(saved_metadata) >= 2
    /\ saved_metadata[Len(saved_metadata)].frame_number = last_similar[2]

\* ------------------------------------------------------------------ C5
\* C5: as long as every sampled frame had at most 50 text regions, no record
\* exists and no image was written; in particular the list returned is empty.
C5_NoDenseFrameNoRecord ==
    (\A i \in DOMAIN frames : frames[i].regions <= DensityThreshold)
    => (saved_metadata = << >> /\ images = {})

\* a video of several sampled frames, all with 50 regions, returned nothing
C5_Witness ==
    /\ pc = "done"
    /\ Cardinality(DOMAIN frames) >= 2
    /\ \A i \in DOMAIN frames : frames[i].regions = DensityThreshold
    /\ saved_metadata = << >>

\* ------------------------------------------------------------------ C6
ScenarioSampled == { 0, 240, 480, 720, 960 }

ScenarioRan ==
    /\ pc = "done"
    /\ frame_skip = ScenarioStride
    /\ fps = 24
    /\ DOMAIN frames = ScenarioSampled
    /\ Cands = ScenarioSampled

C7_TimestampsNonDecreasing ==
    \A i, j \in 1..Len(saved_metadata) :
        i < j => TsLeq(saved_metadata[i].timestamp, saved_metadata[j].timestamp)

\* three records were returned
C7_Witness ==
    /\ pc = "done"
    /\ Len(saved_metadata) >= 3

\* ------------------------------------------------------------------ C8
\* C8: the frames given to the detector are exactly the indices below
\* frame_id that are multiples of the stride, in increasing order from 0; the
\* other indices below frame_id were advanced with grab and only those; the
\* selector has seen the forwarded frames and no other; and when the loop
\* ends on exhaustion every frame of the stream has been consumed.
C8_SamplerVisitsMultiples ==
    /\ \A k \in 1..Len(forwarded) : forwarded[k] = (k - 1) * frame_skip
    /\ Len(forwarded) = Cardinality({ i \in 0..(frame_id - 1) : i % frame_skip = 0 })
    /\ grabbed = { i \in 0..(frame_id - 1) : i % frame_skip # 0 }
    /\ DOMAIN frames = { forwarded[k] : k \in 1..Len(forwarded) }
    /\ endCause = "eof" => frame_id = nframes

\* a stream of four frames sampled with stride 2 to exhaustion
C8_Witness ==
    /\ pc = "done"
    /\ endCause = "eof"
    /\ frame_skip = 2
    /\ forwarded = << 0, 2 >>
    /\ grabbed = { 1, 3 }

\* ------------------------------------------------------------------ C9
\* C9: a read failure before the end of the stream leads to the flush and
\* the return, never to an exception; at the flush the records are those of
\* the runs closed so far, and the list returned holds in addition the
\* record of the run that was active: one record per run, in order.
C9_ReadFailureFlushes ==
    /\ endCause = "error" => pc \in { "flush", "done" }
    /\ (pc = "flush" /\ endCause = "error") =>
          /\ RecordSet = RunLasts \ { Max(Cands \cup { 0 }) }
          /\ Len(saved_metadata) = Cardinality(RecordSet)
    /\ (pc = "done" /\ endCause = "error") =>
          /\ RecordSet = RunLasts
          /\ Len(saved_metadata) = Cardinality(RunLasts)
          /\ \A i, j \in 1..Len(saved_metadata) :
                i < j => FrameNumbers[i] < FrameNumbers[j]

\* a read failed with frames left; a closed run and the active run returned
C9_Witness ==
    /\ pc = "done"
    /\ endCause = "error"
    /\ frame_id < nframes
    /\ Len(saved_metadata) >= 2

\* ------------------------------------------------------------------ C10
\* C10: a record exists only for an image that was stored: every record of
\* the list names a file that is on disk.
C10_RecordsNameStoredImages ==
    \A k \in 1..Len(saved_metadata) :
        \E f \in images : f.name = saved_metadata[k].frame_id

\* ------------------------------------------------------------------ C11
\* C11: when the model file is missing the construction fails with 'EAST
\* model not found': the extractor never gets past construction, no video is
\* opened, no frame is processed and no record, image or directory is made.
C11_MissingModelFailsAtConstruction ==
    ~ model_exists =>
        /\ pc \in { "new", "raised" }
        /\ pc = "raised" => error = ModelNotFound
        /\ ~ opened
        /\ ~ images_dir
        /\ forwarded = << >> /\ grabbed = {} /\ frames = << >>
        /\ saved_metadata = << >> /\ images = {} /\ keyframes = << >>

\* the construction failed on a missing model
C11_Witness ==
    /\ ~ model_exists
    /\ pc = "raised"
    /\ error = ModelNotFound

\* ------------------------------------------------------------------ C12
\* C12: when the video cannot be opened the extraction ends with an error
\* and no frame was read or skipped, no inference was run and no record or
\* image was written.
C12_OpenFailureBeforeAnyFrame ==
    error = ExtractionFailed(CouldNotOpen) =>
        /\ pc = "raised"
        /\ frame_id = 0
        /\ forwarded = << >> /\ grabbed = {} /\ frames = << >>
        /\ saved_metadata = << >> /\ images = {} /\ keyframes = << >>

\* the open of a video that holds frames failed
C12_Witness ==
    /\ error = ExtractionFailed(CouldNotOpen)
    /\ nframes > 0

\* ------------------------------------------------------------------ C13
\* C13: extract() on a path that does not exist raises FileNotFoundError
\* 'Video file not found', not the rewrapped 'Keyframe extraction failed';
\* the images directory is not created and the video is not opened.
C13_MissingVideoRaisesUnwrapped ==
    (model_exists /\ ~ video_exists /\ pc \notin { "new", "constructed" }) =>
        /\ pc = "raised"
        /\ error = VideoNotFound
        /\ ~ images_dir
        /\ ~ opened
        /\ forwarded = << >> /\ grabbed = {} /\ frames = << >>
        /\ saved_metadata = << >> /\ images = {} /\ keyframes = << >>

\* extract() was called on a missing video
C13_Witness ==
    /\ model_exists
    /\ ~ video_exists
    /\ pc = "raised"
    /\ error = VideoNotFound

\* ------------------------------------------------------------------ C14
\* C14: on a video of 0 frames nothing is read, the loop raises nothing and
\* the list returned is empty (the only errors possible are those of a
\* missing model, a missing file or a failed open, and an interrupt).
C14_EmptyVideoEmptyOutput ==
    nframes = 0 =>
        /\ error \in { None, ModelNotFound, VideoNotFound,
                       ExtractionFailed(CouldNotOpen),
                       Interrupted("setup"), Interrupted("loop") }
        /\ forwarded = << >> /\ grabbed = {} /\ frames = << >>
        /\ saved_metadata = << >> /\ images = {} /\ keyframes = << >>
        /\ pc = "flush" => endCause = "eof"

\* an empty video was opened and the extraction returned
C14_Witness ==
    /\ nframes = 0
    /\ pc = "done"
    /\ endCause = "eof"
    /\ keyframes = << >>

\* ------------------------------------------------------------------ C15
\* C15: _decode_predictions returns two lists of the same length, which is
\* the number of cells whose score is >= the confidence threshold; the
\* confidences are the scores of those cells in row-major order.
C15_DecodeCountsCellsAtOrAboveThreshold ==
    fn_pc = "ret" =>
        LET kept == { c \in Cells : arg.scores[c] >= arg.confThreshold }
        IN /\ Len(res.rects) = Len(res.confidences)
           /\ Len(res.rects) = Cardinality(kept)
           /\ \A i \in 1..Len(res.confidences) : res.confidences[i] >= arg.confThreshold
           /\ kept = {} => res = [ rects |-> << >>, confidences |-> << >> ]

\* a map with a cell at the threshold and a cell below it was decoded
C15_Witness ==
    /\ fn_pc = "ret"
    /\ \E c \in Cells : arg.scores[c] = arg.confThreshold
    /\ \E c \in Cells : arg.scores[c] < arg.confThreshold
    /\ Len(res.rects) >= 1
    /\ Len(res.rects) < Cardinality(Cells)

\* ------------------------------------------------------------------ C16
\* C16: _convert_to_keyframes returns a list as long as its input whose k-th
\* element has the k-th entry's timestamp and frame_path, the source_video
\* given as argument and confidence_score 0.8.
C16_ConvertKeepsOrderAndFields ==
    fn_pc = "ret" =>
        /\ Len(res) = Len(arg.metadata_list)
        /\ \A k \in 1..Len(res) :
              /\ res[k].timestamp = arg.metadata_list[k].timestamp
              /\ res[k].image_path.path = arg.metadata_list[k].frame_path
              /\ res[k].source_video = arg.source_video
              /\ res[k].confidence_score.num * 10 = 8 * res[k].confidence_score.den

\* three entries were converted for a source other than the entries' own
C16_Witness ==
    /\ fn_pc = "ret"
    /\ Len(res) = 3
    /\ res[1].timestamp # res[2].timestamp
    /\ arg.source_video # arg.metadata_list[1].source_video

\* ------------------------------------------------------------------ C17
\* C17: sanitize_filename returns a non-empty string without any of the
\* characters < > : " / \ | ? *, without whitespace, without two underscores
\* in a row and without an underscore at either end; a name made only of
\* removed characters, separators and underscores gives 'untitled'.
C17_SanitizedNameIsClean ==
    fn_pc = "ret" =>
        /\ res # << >>
        /\ \A i \in 1..Len(res) : res[i] \notin (InvalidChars \cup WhitespaceChars)
        /\ \A i \in 1..(Len(res) - 1) : ~ (res[i] = "_" /\ res[i + 1] = "_")
        /\ res[1] # "_"
        /\ res[Len(res)] # "_"
        /\ (\A i \in 1..Len(arg) :
               arg[i] \in (InvalidChars \cup SeparatorChars \cup { "_" }))
           => res = Untitled

\* a name of an underscore, a removed character and a blank gave 'untitled'
C17_Witness ==
    /\ fn_pc = "ret"
    /\ arg = << "_", "<", " " >>
    /\ res = Untitled

\* ------------------------------------------------------------------ C18
\* C18: the step that processes a sampled frame with at most 50 regions
\* leaves prev_hash, last_similar, the records and the images as they were;
\* and two candidates within the threshold, the only ones of the video, give
\* one record even when non-candidates lie between them.
C18_NonCandidateIsIgnored ==
    /\ [](( /\ pc = "done"
            /\ Cardinality(Cands) = 2
            /\ Dist(Min(Cands), Max(Cands)) <= hash_thresh )
          => FrameNumbers = << Max(Cands) >>)
    /\ [][ ( /\ Len(forwarded') = Len(forwarded) + 1
             /\ pc' = "loop"
             /\ frames'[frame_id].regions <= DensityThreshold )
           => /\ prev_hash' = prev_hash
              /\ last_similar' = last_similar
              /\ saved_metadata' = saved_metadata
              /\ images' = images ]_vars

\* a non-candidate lay between the two candidates of one run
C18_Witness ==
    /\ pc = "done"
    /\ \E a \in Cands, c \in Cands, b \in (DOMAIN frames) \ Cands :
          a < b /\ b < c /\ RunHead(c) = a
    /\ Len(saved_metadata) = 1

\* ------------------------------------------------------------------ C19
\* the candidates that started a run
RunHeads == { c \in Cands : RunHead(c) = c }

\* C19: the list returned has exactly one record per run, that of the run's
\* last candidate, without repetition; its length is the number of runs (0
\* without candidate); before the flush it is the number of closed runs.
C19_OneRecordPerRun ==
    /\ pc = "done" =>
          /\ Len(saved_metadata) = Cardinality(RunHeads)
          /\ RecordSet = RunLasts
          /\ Cardinality(RecordSet) = Len(saved_metadata)
          /\ Cands = {} => saved_metadata = << >>
    /\ (pc \in { "loop", "flush" } /\ Cands # {}) =>
          /\ Len(saved_metadata) = Cardinality(RunHeads) - 1
          /\ Cardinality(RecordSet) = Len(saved_metadata)

\* several runs, one of them of more than one candidate, were returned
C19_Witness ==
    /\ pc = "done"
    /\ Cardinality(RunHeads) >= 2
    /\ Cardinality(Cands) > Cardinality(RunHeads)
    /\ Len(saved_metadata) = Cardinality(RunHeads)

\* ------------------------------------------------------------------ C20
\* C20: in the loop, the first candidate only starts a run (no record); a
\* record is appended exactly when the frame processed is a candidate whose
\* hash is further than 15 from prev_hash, and that record is the one of the
\* frame held in last_similar before the step, an earlier frame.
C20_EmitOnlyOnDifferentCandidate ==
    [][ (pc = "loop" /\ pc' = "loop") =>
          LET sampled == Len(forwarded') = Len(forwarded) + 1
              dense == sampled /\ frames'[frame_id].regions > DensityThreshold
              different == /\ dense
                           /\ prev_hash # None
                           /\ HashDistance(frames'[frame_id].phash, prev_hash) > hash_thresh
          IN /\ (saved_metadata' # saved_metadata) <=> different
             /\ different =>
                   /\ saved_metadata' =
                        Append(saved_metadata, MetadataRecord(last_similar[2], fps))
                   /\ last_similar[2] < frame_id
                   /\ last_similar' = << frame_id, frame_id >>
                   /\ prev_hash' = frames'[frame_id].phash
             /\ (dense /\ prev_hash = None) =>
                   /\ saved_metadata' = saved_metadata
                   /\ last_similar' = << frame_id, frame_id >>
                   /\ prev_hash' = frames'[frame_id].phash ]_vars

\* a run was closed in the loop by a later, different candidate
C20_Witness ==
    /\ pc = "loop"
    /\ Len(saved_metadata) = 1
    /\ last_similar # None
    /\ last_similar[2] > saved_metadata[1].frame_number

\* ------------------------------------------------------------------ C21
\* C21: a sampled frame is a candidate exactly when the detector returns
\* more than 50 regions: a hash is computed for it if and only if it has at
\* least 51; the step of a frame of exactly 50 regions leaves the selector
\* and the records alone, the step of a frame of 51 makes it the frame held.
C21_CandidateIffAboveFifty ==
    /\ [](\A i \in DOMAIN frames :
            (frames[i].phash # None) <=> (frames[i].regions >= 51))
    /\ [][ (Len(forwarded') = Len(forwarded) + 1 /\ pc' = "loop") =>
            /\ frames'[frame_id].regions = 50 =>
                  /\ prev_hash' = prev_hash
                  /\ last_similar' = last_similar
                  /\ saved_metadata' = saved_metadata
            /\ frames'[frame_id].regions = 51 =>
                  last_similar' = << frame_id, frame_id >> ]_vars

\* a frame of 50 regions and a frame of 51 were sampled; only the second
\* one was returned
C21_Witness ==
    /\ pc = "done"
    /\ \E i \in DOMAIN frames, j \in DOMAIN frames :
          /\ frames[i].regions = 50
          /\ frames[j].regions = 51
          /\ FrameNumbers = << j >>

\* ------------------------------------------------------------------ C22
\* C22: the selector holds at most one run: last_similar is empty or one
\* (frame, index) pair of a candidate, prev_hash is empty or one hash, and
\* prev_hash is set exactly when last_similar is set.
C22_AtMostOneActiveRun ==
    /\ (prev_hash = None) <=> (last_similar = None)
    /\ last_similar # None =>
          /\ Len(last_similar) = 2
          /\ last_similar[1] = last_similar[2]
          /\ last_similar[2] \in Cands
    /\ prev_hash # None => prev_hash \in Hashes

\* one run was closed and another one is active
C22_Witness ==
    /\ pc = "loop"
    /\ Len(saved_metadata) >= 1
    /\ prev_hash # None
    /\ last_similar # None
    /\ last_similar[2] > saved_metadata[Len(saved_metadata)].frame_number

\* ------------------------------------------------------------------ C23
\* C23: in every record the timestamp is the record's own frame_number
\* divided by fps, frame_id is the file name of that frame_number and
\* frame_path is that file in the images directory; the image stored under
\* that name is the frame of that index.
C23_RecordFieldsFromOneIndex ==
    \A k \in 1..Len(saved_metadata) :
        LET r == saved_metadata[k]
        IN /\ r.timestamp.den # 0
           /\ r.timestamp.num * fps = r.frame_number * r.timestamp.den
           /\ r.frame_id = FrameFilename(r.frame_number)
           /\ r.frame_path = << "images_dir" >> \o r.frame_id
           /\ \A f \in images : f.name = r.frame_id => f.content = r.frame_number

\* two records of different frames, one of them not frame 0, were returned
\* with their images
C23_Witness ==
    /\ pc = "done"
    /\ Len(saved_metadata) = 2
    /\ saved_metadata[2].frame_number > saved_metadata[1].frame_number
    /\ Cardinality(images) = 2

\* ------------------------------------------------------------------ C24
\* C24: whichever way the run ends (return or exception), the video opened
\* by it is no longer held: it has been released.
C24_VideoReleasedWhenRunEnds ==
    pc \in { "done", "raised" } => ~ opened

\* ------------------------------------------------------------------ C25
\* C25: after an interruption between two iterations the run that was
\* active has its record, as at the end of the stream, and the records
\* emitted so far are returned to the caller.
C25_InterruptFlushesAndReturns ==
    error = Interrupted("loop") =>
        /\ RecordSet = RunLasts
        /\ Len(keyframes) = Len(saved_metadata)

\* ------------------------------------------------------------------ C26
\* C26: every iteration of the loop either consumes one frame of the stream
\* and adds one to frame_id, or leaves the loop; the loop is left after
\* finitely many iterations; once it is left by a break the flush and the
\* return are reached; every run ends.
C26_LoopTerminates ==
    /\ [][ pc = "loop" =>
            \/ /\ pc' = "loop"
               /\ frame_id < nframes
               /\ frame_id' = frame_id + 1
            \/ pc' \in { "flush", "raised" } ]_vars
    /\ (pc = "loop") ~> (pc \in { "flush", "raised" })
    /\ (pc = "flush") ~> (pc = "done")
    /\ <>(pc \in { "done", "raised" })

\* the whole stream, skipped and sampled frames, was consumed and the run
\* returned
C26_Witness ==
    /\ pc = "done"
    /\ endCause = "eof"
    /\ nframes >= 4
    /\ frame_id = nframes
    /\ grabbed # {}
    /\ Len(forwarded) >= 2

\* ------------------------------------------------------------------ C27
\* the candidates sampled after the frame of the last record: the run that
\* is active (before the final flush)
ActiveRun ==
    IF saved_metadata = << >> THEN Cands
    ELSE { c \in Cands : c > saved_metadata[Len(saved_metadata)].frame_number }

C28_RecordsAreSampledCandidates ==
    \A k \in 1..Len(saved_metadata) :
        LET n == saved_metadata[k].frame_number
        IN /\ n % frame_skip = 0
           /\ n < frame_id
           /\ \E j \in 1..Len(forwarded) : forwarded[j] = n
           /\ n \in DOMAIN frames
           /\ frames[n].regions > 50

\* with stride 2, frame 0 was sampled and ignored, frame 2 was returned
C28_Witness ==
    /\ pc = "done"
    /\ frame_skip = 2
    /\ 0 \in DOMAIN frames
    /\ frames[0].regions = 50
    /\ FrameNumbers = << 2 >>

\* ------------------------------------------------------------------ C29
\* C29: the frame_number values of the list strictly increase, so no frame
\* is returned twice and the file names and paths of the records are
\* pairwise different; a record is never added for a file name that is
\* already on disk and no image on disk is replaced or removed.
C29_RecordsStrictlyIncrease ==
    /\ [](\A j \in 1..Len(saved_metadata), k \in 1..Len(saved_metadata) :
            j < k =>
               /\ saved_metadata[j].frame_number < saved_metadata[k].frame_number
               /\ saved_metadata[j].frame_id # saved_metadata[k].frame_id
               /\ saved_metadata[j].frame_path # saved_metadata[k].frame_path)
    /\ [][ /\ images \subseteq images'
           /\ saved_metadata' # saved_metadata =>
                 \A f \in images :
                    f.name # saved_metadata'[Len(saved_metadata')].frame_id ]_vars

\* three records were returned and three images are on disk
C29_Witness ==
    /\ pc = "done"
    /\ Len(saved_metadata) = 3
    /\ Cardinality(images) = 3
    /\ Cardinality({ f.name : f \in images }) = 3

\* ------------------------------------------------------------------ C30
IsIntegerTime(t) == t.type = "int" /\ t.twice % 2 = 0

\* C30: the list saved has one segment per segment of the LLM, all its
\* start and end times are integers, and from the second segment on each
\* start_time is the end_time of the segment before it.
C30_SegmentsContiguousIntegers ==
    fn_pc = "ret" =>
        /\ Len(res) = Len(arg)
        /\ \A i \in 1..Len(res) :
              /\ IsIntegerTime(res[i].start_time)
              /\ IsIntegerTime(res[i].end_time)
        /\ \A i \in 2..Len(res) : res[i].start_time = res[i - 1].end_time

\* three segments given out of order, with fractional times and a gap, were
\* post-processed
C30_Witness ==
    /\ fn_pc = "ret"
    /\ Len(arg) = 3
    /\ arg[1].start_time.twice > arg[2].start_time.twice
    /\ \E i \in 1..3 : arg[i].end_time.type = "float"
    /\ arg[3].start_time.twice > arg[2].end_time.twice
    /\ res[2].start_time = res[1].end_time
    /\ res[3].start_time = res[2].end_time

====
